---- MODULE Spec2Model ----
(***************************************************************************)
(* A model of quark.c: one worker serving one connection                   *)
(* (serve -> getrequest -> sendresponse -> sendfile / senddir -> log).     *)
(* Bytes are integers 0..255; a C string is a sequence of bytes held in a  *)
(* buffer and ended by the first 0 byte.  Buffer positions are 1-based:    *)
(* C index i is position i + 1.                                            *)
(***************************************************************************)
EXTENDS Integers, Sequences, FiniteSets, TLC

(***************************************************************************)
(* Bounds (scaled-down buffer sizes and environment ranges).               *)
(***************************************************************************)
PATH_MAX == 16
HEADER_MAX == 72
FIELD_MAX == 12
BUFSIZ == 2
MaxSize == 3
MaxTime == 2
\* the most bytes one read delivers
MaxRead == 4

(***************************************************************************)
(* Characters.                                                             *)
(***************************************************************************)
Printable ==
  <<" ", "!", "DQUOTE", "#", "$", "%", "&", "'", "(", ")", "*", "+", ",", "-", ".", "/",
    "0", "1", "2", "3", "4", "5", "6", "7", "8", "9", ":", ";", "<", "=", ">", "?",
    "@", "A", "B", "C", "D", "E", "F", "G", "H", "I", "J", "K", "L", "M", "N", "O",
    "P", "Q", "R", "S", "T", "U", "V", "W", "X", "Y", "Z", "[", "BACKSLASH", "]", "^", "_",
    "BACKTICK", "a", "b", "c", "d", "e", "f", "g", "h", "i", "j", "k", "l", "m", "n", "o",
    "p", "q", "r", "s", "t", "u", "v", "w", "x", "y", "z", "{", "|", "}", "~">>

Ord(c) == 31 + (CHOOSE i \in 1..Len(Printable) : Printable[i] = c)

\* the bytes of a string literal, given as a tuple of one-character strings
S(t) == [i \in 1..Len(t) |-> Ord(t[i])]

CH_PERCENT == Ord("%")
CH_PLUS == Ord("+")
CH_MINUS == Ord("-")
CH_DOT == Ord(".")
CH_SLASH == Ord("/")
CH_0 == Ord("0")
CH_COLON == Ord(":")
CH_T == Ord("T")
CH_X == Ord("X")
CH_a == Ord("a")
CH_g == Ord("g")
CH_x == Ord("x")

STR_HTTP == S(<<"H", "T", "T", "P", "/">>)
STR_10 == S(<<"1", ".", "0">>)
STR_11 == S(<<"1", ".", "1">>)
STR_BYTES == S(<<"b", "y", "t", "e", "s", "=">>)
STR_SLASHDOT == S(<<"/", ".">>)
STR_SLASH == S(<<"/">>)
STR_DOT == S(<<".">>)
STR_DOTDOT == S(<<".", ".">>)

NUL == 0
CR == 13
LF == 10
CRLF == <<CR, LF>>

MIN(x, y) == IF x < y THEN x ELSE y

\* isspace, isdigit, isxdigit in the C locale
IsSpace(c) == c \in {9, 10, 11, 12, 13, 32}
IsDigit(c) == c \in 48..57
IsHex(c) == c \in (48..57) \cup (65..70) \cup (97..102)
HexVal(c) == IF c \in 48..57 THEN c - 48 ELSE IF c \in 65..70 THEN c - 55 ELSE c - 87
IsCntrl(c) == c < 32 \/ c = 127

(***************************************************************************)
(* C string primitives on a buffer b (a sequence of bytes) from position p.*)
(* Reading past the end of the buffer is cut off at the end of the buffer.      *)
(***************************************************************************)
At(b, p) == IF p \in 1..Len(b) THEN b[p] ELSE NUL

\* position of the terminating NUL of the string starting at p
RECURSIVE StrEnd(_, _)
StrEnd(b, p) == IF At(b, p) = NUL THEN p ELSE StrEnd(b, p + 1)

strlen(b, p) == StrEnd(b, p) - p

\* the string at p, without its NUL
CStr(b, p) == SubSeq(b, p, StrEnd(b, p) - 1)

\* strncmp(p, lit, strlen(lit)) == 0, for a literal without NUL
HasPrefix(b, p, lit) == \A k \in 1..Len(lit) : At(b, p + k - 1) = lit[k]

\* strchr(p, c) for c # NUL: the position found, or 0 for NULL
strchr(b, p, c) ==
  LET hits == {j \in p..(StrEnd(b, p) - 1) : b[j] = c}
  IN  IF hits = {} THEN 0 ELSE CHOOSE j \in hits : \A k \in hits : j <= k

\* strrchr(p, c) for c # NUL
strrchr(b, p, c) ==
  LET hits == {j \in p..(StrEnd(b, p) - 1) : b[j] = c}
  IN  IF hits = {} THEN 0 ELSE CHOOSE j \in hits : \A k \in hits : j >= k

\* strstr(p, lit): the position found, or 0 for NULL
strstr(b, p, lit) ==
  LET hits == {j \in p..(StrEnd(b, p) - Len(lit)) : HasPrefix(b, j, lit)}
  IN  IF hits = {} THEN 0 ELSE CHOOSE j \in hits : \A k \in hits : j <= k

\* memcpy-style store of the bytes of src at position p of b (clipped at the end)
Store(b, p, src) ==
  LET k == MIN(Len(src), Len(b) - p + 1)
  IN  IF p < 1 \/ k <= 0 THEN b
      ELSE SubSeq(b, 1, p - 1) \o SubSeq(src, 1, k) \o SubSeq(b, p + k, Len(b))

\* atoi: optional white space, optional sign, decimal digits
RECURSIVE DigitsVal(_, _, _)
DigitsVal(b, p, acc) ==
  IF IsDigit(At(b, p)) THEN DigitsVal(b, p + 1, 10 * acc + (At(b, p) - 48)) ELSE acc

RECURSIVE SkipSpace(_, _)
SkipSpace(b, p) == IF IsSpace(At(b, p)) THEN SkipSpace(b, p + 1) ELSE p

atoi(b, p) ==
  LET s == SkipSpace(b, p)
  IN  IF At(b, s) = CH_MINUS THEN 0 - DigitsVal(b, s + 1, 0)
      ELSE IF At(b, s) = CH_PLUS THEN DigitsVal(b, s + 1, 0)
      ELSE DigitsVal(b, s, 0)

(***************************************************************************)
(* decode (in place: the only call passes the same buffer twice).          *)
(* sscanf(s + 1, "%2hhx", &n): skips white space, then reads at most two   *)
(* characters: an optional sign and hex digits; it returns 1 as soon as    *)
(* one hex digit was read.  ("0x" followed by nothing reads as 0.)         *)
(***************************************************************************)
sscanf2hhx(b, p) ==
  LET s  == SkipSpace(b, p)
      c1 == At(b, s)
      c2 == At(b, s + 1)
  IN  IF c1 \in {CH_PLUS, CH_MINUS}
      THEN IF IsHex(c2)
           THEN [ret |-> 1, n |-> IF c1 = CH_MINUS THEN (256 - HexVal(c2)) % 256
                                                   ELSE HexVal(c2)]
           ELSE [ret |-> 0, n |-> 0]
      ELSE IF IsHex(c1)
      THEN IF c1 = CH_0 /\ c2 \in {CH_x, CH_X} THEN [ret |-> 1, n |-> 0]
           ELSE IF IsHex(c2) THEN [ret |-> 1, n |-> 16 * HexVal(c1) + HexVal(c2)]
           ELSE [ret |-> 1, n |-> HexVal(c1)]
      ELSE [ret |-> 0, n |-> 0]

\* s, i: C indices of the read pointer and of the write index.  The loop ends
\* at the first NUL it reads; it is cut off where s leaves the buffer.
RECURSIVE decodeLoop(_, _, _)
decodeLoop(b, s, i) ==
  IF At(b, s + 1) = NUL
  THEN [buf |-> Store(b, i + 1, <<NUL>>), len |-> i, s |-> s]
  ELSE IF b[s + 1] = CH_PLUS
  THEN decodeLoop(Store(b, i + 1, <<32>>), s + 1, i + 1)
  ELSE IF b[s + 1] = CH_PERCENT /\ sscanf2hhx(b, s + 2).ret = 1
  THEN decodeLoop(Store(b, i + 1, <<sscanf2hhx(b, s + 2).n>>), s + 3, i + 1)
  ELSE decodeLoop(Store(b, i + 1, <<b[s + 1]>>), s + 1, i + 1)

decode(b) == decodeLoop(b, 0, 0)

(***************************************************************************)
(* encode: dest is the zero-filled static tmptarget, followed by the       *)
(* MemBehind bytes of memory that lie behind it, which a store beyond      *)
(* PATH_MAX hits (oob records that there was one); a store further away is *)
(* cut off.                                                                *)
(***************************************************************************)
MemBehind == 4

HexDigit(n) == IF n < 10 THEN 48 + n ELSE 55 + n

\* snprintf(dest + i, size, "%%%02X", c): at most size - 1 bytes and a NUL
snprintfPct(dest, i, size, c) ==
  LET full == <<CH_PERCENT, HexDigit(c \div 16), HexDigit(c % 16), NUL>>
      out  == IF size <= 0 THEN <<>>
              ELSE IF size >= 4 THEN full
              ELSE SubSeq(full, 1, size - 1) \o <<NUL>>
  IN  Store(dest, i + 1, out)

RECURSIVE encodeLoop(_, _, _, _, _)
encodeLoop(src, s, dest, i, oob) ==
  IF At(src, s + 1) = NUL THEN [buf |-> dest, len |-> i, oob |-> oob]
  ELSE IF IsCntrl(src[s + 1]) \/ src[s + 1] > 127
  THEN \* PATH_MAX - i is a size_t: it wraps around once i > PATH_MAX
       encodeLoop(src, s + 1,
                  snprintfPct(dest, i, IF i <= PATH_MAX THEN PATH_MAX - i ELSE 4, src[s + 1]),
                  i + 3, oob \/ i > PATH_MAX)
  ELSE encodeLoop(src, s + 1, Store(dest, i + 1, <<src[s + 1]>>), i + 1,
                  oob \/ i >= PATH_MAX)

\* behind: the byte that fills the memory behind tmptarget
encode(src, behind) ==
  encodeLoop(src, 0, [j \in 1..(PATH_MAX + MemBehind) |-> IF j <= PATH_MAX THEN NUL ELSE behind],
             0, FALSE)

(***************************************************************************)
(* normabspath.  Positions are 1-based: path is 1, path + 1 is 2.          *)
(* The squash is a memcpy whose source and destination overlap, which C    *)
(* leaves undefined: asc tells whether the build copies in ascending or    *)
(* in descending address order.                                            *)
(***************************************************************************)
RECURSIVE memcpyAsc(_, _, _, _, _)
memcpyAsc(b, d, s, n, k) ==
  IF k >= n THEN b ELSE memcpyAsc(Store(b, d + k, <<At(b, s + k)>>), d, s, n, k + 1)

RECURSIVE memcpyDesc(_, _, _, _, _)
memcpyDesc(b, d, s, n, k) ==
  IF k < 0 THEN b ELSE memcpyDesc(Store(b, d + k, <<At(b, s + k)>>), d, s, n, k - 1)

memcpy(b, d, s, n, asc) == IF asc THEN memcpyAsc(b, d, s, n, 0) ELSE memcpyDesc(b, d, s, n, n - 1)

\* for (p -= 2; p > path && *p != '/'; p--);
RECURSIVE BackScan(_, _)
BackScan(b, p) == IF p > 1 /\ At(b, p) # CH_SLASH THEN BackScan(b, p - 1) ELSE p

RECURSIVE normLoop(_, _, _, _)

\* a squash that moves on to the next component without looking at the one it
\* has moved into place
squashMoveOn(b, p, q, last, len, asc) ==
  IF last THEN Store(b, p, <<NUL>>)
  ELSE LET b2 == memcpy(b, p, q + 1, len - q + 2, asc)
           nx == strchr(b2, p, CH_SLASH)
       IN  IF nx = 0 THEN b2 ELSE normLoop(b2, nx + 1, len - ((q + 1) - p), asc)

\* squash (p, q) into void
squash(b, p, q, last, len, asc) ==
  IF last THEN Store(b, p, <<NUL>>)
  ELSE normLoop(memcpy(b, p, q + 1, len - q + 2, asc), p, len - ((q + 1) - p), asc)

\* the path component within (p, q)
normComponent(b, p, q, last, len, asc) ==
  IF p = q \/ (q - p = 1 /\ At(b, p) = CH_DOT)
  THEN \* "/" or "./"
       squash(b, p, q, last, len, asc)
  ELSE IF q - p = 2 /\ At(b, p) = CH_DOT /\ At(b, p + 1) = CH_DOT
  THEN \* "../": place p right after the previous /
       squash(b, IF p # 2 THEN BackScan(b, p - 2) + 1 ELSE p, q, last, len, asc)
  ELSE \* move on
       IF last THEN b ELSE normLoop(b, q + 1, len, asc)

\* bound path component within (p, q): slash is strchr(p, '/')
normBound(b, p, slash, len, asc) ==
  normComponent(b, p, IF slash = 0 THEN StrEnd(b, p) ELSE slash, slash = 0, len, asc)

normLoop(b, p, len, asc) == normBound(b, p, strchr(b, p, CH_SLASH), len, asc)

\* a normalizer that does not insist on the leading slash
normabspathAnyStart(b, asc) == [ret |-> 0, buf |-> normLoop(b, 2, strlen(b, 2), asc)]

normabspath(b, asc) ==
  IF At(b, 1) # CH_SLASH THEN [ret |-> 1, buf |-> b]
  ELSE [ret |-> 0, buf |-> normLoop(b, 2, strlen(b, 2), asc)]

(***************************************************************************)
(* Status codes and reason phrases.                                        *)
(***************************************************************************)
S_OK == 200
S_PARTIAL_CONTENT == 206
S_MOVED_PERMANENTLY == 301
S_NOT_MODIFIED == 304
S_BAD_REQUEST == 400
S_FORBIDDEN == 403
S_NOT_FOUND == 404
S_METHOD_NOT_ALLOWED == 405
S_REQUEST_TIMEOUT == 408
S_REQUEST_TOO_LARGE == 431
S_INTERNAL_SERVER_ERROR == 500
S_VERSION_NOT_SUPPORTED == 505

Statuses ==
  {S_OK, S_PARTIAL_CONTENT, S_MOVED_PERMANENTLY, S_NOT_MODIFIED, S_BAD_REQUEST,
   S_FORBIDDEN, S_NOT_FOUND, S_METHOD_NOT_ALLOWED, S_REQUEST_TIMEOUT,
   S_REQUEST_TOO_LARGE, S_INTERNAL_SERVER_ERROR, S_VERSION_NOT_SUPPORTED}

status_str(s) ==
  CASE s = S_OK -> "OK"
    [] s = S_PARTIAL_CONTENT -> "Partial Content"
    [] s = S_MOVED_PERMANENTLY -> "Moved Permanently"
    [] s = S_NOT_MODIFIED -> "Not Modified"
    [] s = S_BAD_REQUEST -> "Bad Request"
    [] s = S_FORBIDDEN -> "Forbidden"
    [] s = S_NOT_FOUND -> "Not Found"
    [] s = S_METHOD_NOT_ALLOWED -> "Method Not Allowed"
    [] s = S_REQUEST_TIMEOUT -> "Request Time-out"
    [] s = S_REQUEST_TOO_LARGE -> "Request Header Fields Too Large"
    [] s = S_INTERNAL_SERVER_ERROR -> "Internal Server Error"
    [] s = S_VERSION_NOT_SUPPORTED -> "HTTP Version not supported"

req_method_str == <<S(<<"G", "E", "T">>), S(<<"H", "E", "A", "D">>)>>
req_method == <<"M_GET", "M_HEAD">>

\* enum req_field, as positions of the sequence r.field (counted from 1)
REQ_RANGE == 1
REQ_MOD == 2
req_field_str ==
  <<S(<<"R", "a", "n", "g", "e">>),
    S(<<"I", "f", "-", "M", "o", "d", "i", "f", "i", "e", "d", "-", "S", "i", "n", "c", "e">>)>>

(***************************************************************************)
(* getrequest after the header has been received: everything from          *)
(* "remove terminating empty line" on.  st = 0 is success; any other st    *)
(* is the status getrequest hands to sendstatus.  r is the request as the  *)
(* code leaves it, also where it fails; tgt tells whether r->target has    *)
(* been written.                                                           *)
(***************************************************************************)
RECURSIVE SkipBlank(_, _)
SkipBlank(b, p) == IF At(b, p) = 32 THEN SkipBlank(b, p + 1) ELSE p

RECURSIVE parseFields(_, _, _)
parseFields(b, p, r) ==
  IF At(b, p) = NUL THEN [st |-> 0, r |-> r, tgt |-> TRUE]
  ELSE
    LET i == IF HasPrefix(b, p, req_field_str[REQ_RANGE]) THEN REQ_RANGE
             ELSE IF HasPrefix(b, p, req_field_str[REQ_MOD]) THEN REQ_MOD
             ELSE 0
    IN  IF i = 0
        THEN \* unmatched field, skip this line
             LET q == strstr(b, p, CRLF)
             IN  IF q = 0 THEN [st |-> S_BAD_REQUEST, r |-> r, tgt |-> TRUE]
                 ELSE parseFields(b, q + 2, r)
        ELSE LET pc1 == p + Len(req_field_str[i])
                 pv  == SkipBlank(b, pc1 + 1)
                 q   == strstr(b, pv, CRLF)
             IN  IF At(b, pc1) # CH_COLON THEN [st |-> S_BAD_REQUEST, r |-> r, tgt |-> TRUE]
                 ELSE IF q = 0 THEN [st |-> S_BAD_REQUEST, r |-> r, tgt |-> TRUE]
                 ELSE IF q - pv + 1 > FIELD_MAX THEN [st |-> S_REQUEST_TOO_LARGE, r |-> r, tgt |-> TRUE]
                 ELSE parseFields(b, q + 2,
                                  [r EXCEPT !.field[i] = SubSeq(b, pv, q - 1)])

parseRequest(h, hlen, r) ==
  IF hlen < 2 THEN [st |-> S_BAD_REQUEST, r |-> r, tgt |-> FALSE]
  ELSE
    LET b    == SubSeq(h, 1, hlen - 2) \o <<NUL>>
        i    == IF HasPrefix(b, 1, req_method_str[1]) THEN 1
                ELSE IF HasPrefix(b, 1, req_method_str[2]) THEN 2
                ELSE 0
    IN  IF i = 0 THEN [st |-> S_METHOD_NOT_ALLOWED, r |-> r, tgt |-> FALSE]
        ELSE
          LET mlen == Len(req_method_str[i])
              r1   == [r EXCEPT !.method = req_method[i]]
              p    == mlen + 2
              q    == strchr(b, p, 32)
          IN  IF At(b, mlen + 1) # 32 THEN [st |-> S_BAD_REQUEST, r |-> r1, tgt |-> FALSE]
              ELSE IF q = 0 THEN [st |-> S_BAD_REQUEST, r |-> r1, tgt |-> FALSE]
              ELSE IF q - p + 1 > PATH_MAX THEN [st |-> S_REQUEST_TOO_LARGE, r |-> r1, tgt |-> FALSE]
              ELSE
                LET r2 == [r1 EXCEPT !.target =
                             decode(Store(r1.target, 1, SubSeq(b, p, q - 1) \o <<NUL>>)).buf]
                    pv == q + 1 + 5
                    pt == pv + 3
                    r3 == [r2 EXCEPT !.field = <<<<>>, <<>>>>]
                IN  IF ~HasPrefix(b, q + 1, STR_HTTP)
                    THEN [st |-> S_BAD_REQUEST, r |-> r2, tgt |-> TRUE]
                    ELSE IF ~HasPrefix(b, pv, STR_10)
                            /\ ~HasPrefix(b, pv, STR_11)
                    THEN [st |-> S_VERSION_NOT_SUPPORTED, r |-> r2, tgt |-> TRUE]
                    ELSE IF ~HasPrefix(b, pt, CRLF) THEN [st |-> S_BAD_REQUEST, r |-> r2, tgt |-> TRUE]
                    ELSE parseFields(b, pt + 2, r3)

(***************************************************************************)
(* Configuration (config.h).                                               *)
(***************************************************************************)
docindex == S(<<"i", "n", "d", "e", "x", ".", "h", "t", "m", "l">>)

mimes ==
  <<[ext |-> S(<<"h", "t", "m", "l">>), type |-> "text/html"],
    [ext |-> S(<<"t", "x", "t">>), type |-> "text/plain"]>>

(***************************************************************************)
(* What is written to the stream: a sequence of items.  An item has a kind *)
(* t, a name n, a text s and a sequence of numbers or bytes v.             *)
(***************************************************************************)
Item(t, n, s, v) == [t |-> t, n |-> n, s |-> s, v |-> v]
StatusLine(s) == Item("status", "HTTP/1.1", status_str(s), <<s>>)
Hdr(n, s, v) == Item("hdr", n, s, v)
EndOfHeaders == Item("eoh", "", "", <<>>)
Data(c) == Item("data", "", "", <<c>>)

\* timestamp(0, t): the current time; timestamp(t, buf) for a file time.
\* The date syntax is scaled down to the letter T and one digit of seconds.
timestamp(t) == <<CH_T, 48 + t>>
DateHdr == Hdr("Date", "now", <<>>)

\* strptime(s, "%a, %d %b %Y %T GMT", &tm) and mktime(&tm): trailing bytes
\* are not looked at
strptime(b, p) ==
  IF At(b, p) = CH_T /\ IsDigit(At(b, p + 1))
  THEN [ok |-> TRUE, t |-> At(b, p + 1) - 48]
  ELSE [ok |-> FALSE, t |-> 0]

\* "%zu" of an off_t: a negative number prints as 2^64 + x, written <<1, x>>
zu(x) == IF x < 0 THEN <<1, x>> ELSE <<0, x>>

\* a status page that never carries Allow
StatusPageNoAllow(s) ==
  <<StatusLine(s), DateHdr, Hdr("Connection", "close", <<>>),
    Hdr("Content-Type", "text/html", <<>>), EndOfHeaders,
    Item("html", "title and h1", status_str(s), <<s>>)>>

\* the bytes of the one dprintf of sendstatus
StatusPage(s) ==
  <<StatusLine(s), DateHdr, Hdr("Connection", "close", <<>>)>>
  \o (IF s = S_METHOD_NOT_ALLOWED THEN <<Hdr("Allow", "HEAD, GET", <<>>)>> ELSE <<>>)
  \o <<Hdr("Content-Type", "text/html", <<>>), EndOfHeaders,
       Item("html", "title and h1", status_str(s), <<s>>)>>

\* wok: whether the dprintf succeeds
sendstatus(s, wok) ==
  IF wok THEN [out |-> StatusPage(s), st |-> s]
  ELSE [out |-> <<>>, st |-> S_REQUEST_TIMEOUT]

(***************************************************************************)
(* The served tree, as stat, fopen and scandir see it:                     *)
(*   /  /d/  /p/ (no search permission)  /f.txt  /.h  [/d/index.html]      *)
(*   /a<80><80><80><80>aa/ (empty)                                         *)
(* fs = [size, mtime: of the regular files; index: /d/index.html exists].  *)
(***************************************************************************)
P_root == STR_SLASH
P_d == S(<<"/", "d">>)
P_p == S(<<"/", "p">>)
P_f == S(<<"/", "f", ".", "t", "x", "t">>)
P_h == S(<<"/", ".", "h">>)
P_idx == P_d \o STR_SLASH \o docindex
\* a directory with a name of bytes above 0x7F between letters
N_c == <<CH_a>> \o [j \in 1..4 |-> 128] \o <<CH_a, CH_a>>
P_c == STR_SLASH \o N_c

IsPrefixOf(a, b) == Len(a) <= Len(b) /\ SubSeq(b, 1, Len(a)) = a

stat(path, fs) ==
  LET slash == Len(path) > 1 /\ path[Len(path)] = CH_SLASH
      base  == IF slash THEN SubSeq(path, 1, Len(path) - 1) ELSE path
      dir   == [ret |-> 0, errno |-> "", mode |-> "S_IFDIR", size |-> 0, mtime |-> 0]
      reg   == [ret |-> 0, errno |-> "", mode |-> "S_IFREG", size |-> fs.size,
                mtime |-> fs.mtime]
      err(e) == [ret |-> -1, errno |-> e, mode |-> "", size |-> 0, mtime |-> 0]
  IN  IF base \in {P_root, P_d, P_p, P_c} THEN dir
      ELSE IF IsPrefixOf(P_p \o STR_SLASH, base) THEN err("EACCES")
      ELSE IF base \in {P_f, P_h} \/ (base = P_idx /\ fs.index)
      THEN IF slash THEN err("ENOTDIR") ELSE reg
      ELSE err("ENOENT")

\* the bytes of every regular file: byte k (from 0) is 65 + k
FileByte(k) == 65 + k

Dirent(name, type) == [d_name |-> name, d_type |-> type]

\* scandir(name, &e, NULL, compareent): directories first, then by name
scandir(name, fs) ==
  LET dots == <<Dirent(STR_DOT, "DT_DIR"), Dirent(STR_DOTDOT, "DT_DIR")>>
  IN  IF name = P_root
      THEN [ret |-> 7, e |-> dots \o <<Dirent(N_c, "DT_DIR"),
                                       Dirent(S(<<"d">>), "DT_DIR"), Dirent(S(<<"p">>), "DT_DIR"),
                                       Dirent(S(<<".", "h">>), "DT_REG"),
                                       Dirent(S(<<"f", ".", "t", "x", "t">>), "DT_REG")>>]
      ELSE IF name = P_d \o STR_SLASH
      THEN [ret |-> IF fs.index THEN 3 ELSE 2,
            e |-> dots \o (IF fs.index THEN <<Dirent(docindex, "DT_REG")>> ELSE <<>>)]
      ELSE IF name = P_c \o STR_SLASH
      THEN [ret |-> 2, e |-> dots]
      ELSE [ret |-> -1, e |-> <<>>]

filetype(t) ==
  CASE t = "DT_FIFO" -> "|"
    [] t = "DT_DIR" -> "/"
    [] t = "DT_LNK" -> "@"
    [] t = "DT_SOCK" -> "="
    [] OTHER -> ""

FsOp(op, path) == [op |-> op, path |-> path]

(***************************************************************************)
(* The result of sendresponse up to its first blocking call on the file:   *)
(*   out   the items written, in order                                     *)
(*   st    the status returned (of the response head, when body is TRUE)   *)
(*   ops   the stat, fopen and scandir calls made, in order                *)
(*   sf    the arguments of the sendfile call, if one was made             *)
(*   fp    the FILE of sendfile: "none", "null", "open" or "closed"        *)
(*   body  TRUE when sendfile goes on to stream the body                   *)
(*   field r->field[REQ_RANGE] as the range parser leaves it               *)
(*   rt    the static buffer realtarget                                    *)
(* env is what the environment decides: wok, the number of output calls    *)
(* that succeed before the stream fails; fopen and fseek, whether these    *)
(* succeed; asc, the copy order of an overlapping memcpy; streg, what      *)
(* S_ISREG reads in a struct stat left indeterminate by a failed stat.     *)
(***************************************************************************)
Res(out, st, ops, field) ==
  [out |-> out, st |-> st, ops |-> ops, sf |-> <<>>, fp |-> "none", body |-> FALSE,
   field |-> field, rt |-> <<>>]

\* return sendstatus(fd, s), as the n-th output call
Fail(s, n, out, ops, field, env) ==
  LET ss == sendstatus(s, n <= env.wok)
  IN  Res(out \o ss.out, ss.st, ops, field)

Visible(e) == SelectSeq(e, LAMBDA d : d.d_name[1] # CH_DOT)

EntryLine(d) == Item("entry", filetype(d.d_type), "", d.d_name)

senddir(name, r, ops, fs, env) ==
  LET sd    == scandir(name, fs)
      ops1  == ops \o <<FsOp("scandir", name)>>
      head  == <<StatusLine(S_OK), DateHdr, Hdr("Connection", "close", <<>>),
                 Hdr("Content-Type", "text/html", <<>>), EndOfHeaders>>
      vis   == Visible(sd.e)
      lines == <<Item("listhead", "Index of", "", name)>>
               \o [i \in 1..Len(vis) |-> EntryLine(vis[i])]
               \o <<Item("listfoot", "", "", <<>>)>>
      k     == MIN(env.wok - 1, Len(lines))
  IN  IF sd.ret < 0 THEN Fail(S_FORBIDDEN, 1, <<>>, ops1, r.field[REQ_RANGE], env)
      ELSE IF env.wok < 1 THEN Res(<<>>, S_REQUEST_TIMEOUT, ops1, r.field[REQ_RANGE])
      ELSE IF r.method = "M_GET"
      THEN Res(head \o SubSeq(lines, 1, k),
               IF k < Len(lines) THEN S_REQUEST_TIMEOUT ELSE S_OK, ops1, r.field[REQ_RANGE])
      ELSE Res(head, S_OK, ops1, r.field[REQ_RANGE])

\* the first j of the sequences ps, concatenated
RECURSIVE Cat(_, _)
Cat(ps, j) == IF j = 0 THEN <<>> ELSE Cat(ps, j - 1) \o ps[j]

\* sendfile up to the body loop; n output calls were made before it, out0 is
\* what they wrote
sendfile(name, r, st, mime, lower, upper, n, out0, ops, env) ==
  LET ops1  == ops \o <<FsOp("fopen", name)>>
      call  == [name |-> name, lower |-> lower, upper |-> upper, size |-> st.size,
                mime |-> mime]
      range == r.field[REQ_RANGE] # <<>>
      s     == IF range THEN S_PARTIAL_CONTENT ELSE S_OK
      head  == <<StatusLine(s), DateHdr, Hdr("Connection", "close", <<>>),
                 Hdr("Last-Modified", "", timestamp(st.mtime)),
                 Hdr("Content-Type", mime, <<>>),
                 Hdr("Content-Length", "", zu(upper - lower))>>
      crng  == <<Hdr("Content-Range", "bytes",
                     zu(lower) \o zu(upper - 1) \o zu(st.size))>>
      parts == <<head>> \o (IF range THEN <<crng>> ELSE <<>>) \o <<(<<EndOfHeaders>>)>>
      k     == MIN(IF env.wok > n THEN env.wok - n ELSE 0, Len(parts))
      base  == [Res(out0, s, ops1, r.field[REQ_RANGE]) EXCEPT !.sf = <<call>>]
  IN  IF ~env.fopen
      THEN [Fail(S_FORBIDDEN, n + 1, out0, ops1, r.field[REQ_RANGE], env)
              EXCEPT !.sf = <<call>>, !.fp = "null"]
      ELSE IF ~env.fseek
      THEN [Fail(S_INTERNAL_SERVER_ERROR, n + 1, out0, ops1, r.field[REQ_RANGE], env)
              EXCEPT !.sf = <<call>>, !.fp = "closed"]
      ELSE IF k < Len(parts)
      THEN [base EXCEPT !.out = out0 \o Cat(parts, k), !.st = S_REQUEST_TIMEOUT,
                        !.fp = "closed"]
      ELSE IF r.method = "M_GET"
      THEN [base EXCEPT !.out = out0 \o Cat(parts, k), !.fp = "open", !.body = TRUE]
      ELSE [base EXCEPT !.out = out0 \o Cat(parts, k), !.fp = "closed"]

\* the mime type of the first table entry whose extension is the target's
mimeOf(rt) ==
  LET p    == strrchr(rt, 1, CH_DOT)
      hits == {i \in 1..Len(mimes) : mimes[i].ext = CStr(rt, p + 1)}
  IN  IF p = 0 \/ hits = {} THEN "application/octet-stream"
      ELSE mimes[CHOOSE i \in hits : \A j \in hits : i <= j].type

\* sendresponse from "modified since" on: rt is realtarget, st the stat result
sendplan(r, rt, st, ops, env) ==
  LET mod    == r.field[REQ_MOD] # <<>>
      tm     == strptime(r.field[REQ_MOD] \o <<NUL>>, 1)
      notmod == mod /\ tm.ok /\ st.mtime - tm.t <= 0
      head   == <<StatusLine(S_NOT_MODIFIED), DateHdr, Hdr("Connection", "close", <<>>),
                  EndOfHeaders>>
      n      == IF notmod THEN 1 ELSE 0
      out0   == IF notmod THEN head ELSE <<>>
      rng    == r.field[REQ_RANGE] # <<>>
      fb     == r.field[REQ_RANGE] \o <<NUL>>
      p      == 7
      q      == strchr(fb, p, CH_MINUS)
      fb1    == Store(fb, q, <<NUL>>)
      f1     == CStr(fb1, 1)
      lower  == IF rng /\ At(fb1, p) # NUL THEN atoi(fb1, p) ELSE 0
      upper  == IF rng /\ At(fb1, q + 1) # NUL THEN atoi(fb1, q + 1) ELSE st.size
  IN  IF mod /\ ~tm.ok THEN Fail(S_BAD_REQUEST, 1, <<>>, ops, r.field[REQ_RANGE], env)
      ELSE IF notmod /\ env.wok < 1
      THEN Res(<<>>, S_REQUEST_TIMEOUT, ops, r.field[REQ_RANGE])
      ELSE IF rng /\ ~HasPrefix(fb, 1, STR_BYTES)
      THEN Fail(S_BAD_REQUEST, n + 1, out0, ops, r.field[REQ_RANGE], env)
      ELSE IF rng /\ q = 0
      THEN Fail(S_BAD_REQUEST, n + 1, out0, ops, r.field[REQ_RANGE], env)
      ELSE IF rng /\ (lower < 0 \/ upper < 0 \/ lower > upper)
      THEN Fail(S_BAD_REQUEST, n + 1, out0, ops, f1, env)
      ELSE LET r1 == IF rng THEN [r EXCEPT !.field[REQ_RANGE] = f1] ELSE r
           IN  sendfile(CStr(rt, 1), r1, st, mimeOf(rt), lower,
                        IF rng THEN MIN(st.size, upper) ELSE upper, n, out0, ops, env)

\* a count of the bytes to send that leaves out the last one
RemainingOffByOne(lower, upper) == upper - lower

\* sendfile: remaining = upper - lower + 1
Remaining(lower, upper) == upper - lower + 1

\* a check that looks at the first byte only
hiddenFirstOnly(rt) == At(rt, 1) = CH_DOT

\* reject hidden target
hidden(rt) == At(rt, 1) = CH_DOT \/ strstr(rt, 1, STR_SLASHDOT) # 0

\* a PATH_MAX buffer holding the string t, zero-filled behind it
Buf(t) == [j \in 1..PATH_MAX |-> IF j <= Len(t) THEN t[j] ELSE NUL]

\* the result res, with realtarget as the call leaves it
In(rt, res) == [res EXCEPT !.rt = rt]

sendresponse(r, fs, listdirs, env) ==
  LET nr    == normabspath(r.target, env.asc)
      rt0   == nr.buf
      range == r.field[REQ_RANGE]
      path0 == CStr(rt0, 1)
      st    == stat(path0, fs)
      ops1  == <<FsOp("stat", path0)>>
      isdir == st.mode = "S_IFDIR"
      len   == strlen(rt0, 1)
      rt1   == IF isdir /\ len # 0 /\ rt0[len] # CH_SLASH
               THEN Store(rt0, len + 1, <<CH_SLASH, NUL>>) ELSE rt0
      tgt   == CStr(r.target, 1)
      enc   == encode(rt1, env.behind)
      moved == <<StatusLine(S_MOVED_PERMANENTLY), DateHdr, Hdr("Connection", "close", <<>>),
                 Hdr("Location", "", CStr(enc.buf, 1)), EndOfHeaders>>
      full  == tgt \o docindex
      rt2   == Store(rt1, 1, SubSeq(full, 1, MIN(Len(full), PATH_MAX - 1)) \o <<NUL>>)
      path2 == CStr(rt2, 1)
      st2   == stat(path2, fs)
      ops2  == ops1 \o <<FsOp("stat", path2)>>
      noreg == IF st2.ret < 0 THEN ~env.streg ELSE st2.mode # "S_IFREG"
  IN  IF nr.ret # 0 THEN In(rt0, Fail(S_BAD_REQUEST, 1, <<>>, <<>>, range, env))
      ELSE IF hidden(rt0)
      THEN In(rt0, Fail(S_FORBIDDEN, 1, <<>>, <<>>, range, env))
      ELSE IF st.ret < 0
      THEN In(rt0, Fail(IF st.errno = "EACCES" THEN S_FORBIDDEN ELSE S_NOT_FOUND, 1, <<>>,
                        ops1, range, env))
      ELSE IF isdir /\ len = PATH_MAX - 2
      THEN In(rt0, Fail(S_REQUEST_TOO_LARGE, 1, <<>>, ops1, range, env))
      ELSE IF tgt # CStr(rt1, 1)
      THEN IF env.wok >= 1 THEN In(rt1, Res(moved, S_MOVED_PERMANENTLY, ops1, range))
           ELSE In(rt1, Res(<<>>, S_REQUEST_TIMEOUT, ops1, range))
      ELSE IF ~isdir THEN In(rt1, sendplan(r, rt1, st, ops1, env))
      ELSE IF Len(tgt) + Len(docindex) >= PATH_MAX
      THEN In(rt2, Fail(S_REQUEST_TOO_LARGE, 1, <<>>, ops1, range, env))
      ELSE IF st2.ret >= 0 /\ st2.mode = "S_IFREG"
      THEN In(rt2, sendplan(r, rt2, st2, ops2, env))
      ELSE IF listdirs
      THEN LET rt3 == Store(rt2, Len(tgt) + 1, <<NUL>>)
           IN  In(rt3, senddir(CStr(rt3, 1), r, ops2, fs, env))
      ELSE IF noreg \/ st2.errno = "EACCES"
      THEN In(rt2, Fail(S_FORBIDDEN, 1, <<>>, ops2, range, env))
      ELSE In(rt2, Fail(S_NOT_FOUND, 1, <<>>, ops2, range, env))

(***************************************************************************)
(* The request line as received, for comparison with what the parser makes *)
(* of it.                                                                  *)
(***************************************************************************)
\* the bytes of t before the first c, all of t if it holds none
RECURSIVE UpTo(_, _)
UpTo(t, c) == IF t = <<>> \/ Head(t) = c THEN <<>> ELSE <<Head(t)>> \o UpTo(Tail(t), c)

\* the header as the parser reads it: h without its last two bytes, up to
\* the first NUL
Header(h1) == IF Len(h1) < 2 THEN <<>> ELSE CStr(SubSeq(h1, 1, Len(h1) - 2) \o <<NUL>>, 1)

\* nothing of a request line has been parsed
Unseen == [line |-> FALSE, tok |-> <<>>, sp |-> FALSE, tgt |-> FALSE, raw |-> <<>>,
           hdr |-> <<>>]

\* the request line of h1 as a reader of the bytes sees it: the line ends
\* before the first CR; tok is its method token (the bytes before the first
\* space), sp tells whether a space follows the token; and, where the parser
\* has extracted a target (pr.tgt), raw is its bytes as received; hdr is h1,
\* the bytes received
Seen(h1, pr) ==
  LET hd   == Header(h1)
      line == UpTo(hd, CR)
      tok  == UpTo(line, 32)
  IN  [line |-> Len(h1) >= 2, tok |-> tok, sp |-> Len(tok) < Len(line), tgt |-> pr.tgt,
       raw |-> IF pr.tgt THEN UpTo(SubSeq(hd, Len(tok) + 2, Len(hd)), 32) ELSE <<>>,
       hdr |-> h1]

\* t occurs in h1
Contains(h1, t) == \E i \in 1..(Len(h1) - Len(t) + 1) : SubSeq(h1, i, i + Len(t) - 1) = t

(***************************************************************************)
(* The worker of one connection (the child of serve).                      *)
(***************************************************************************)
VARIABLES
  pc,        \* where the worker is: recv, respond, fread, write, log, shut, done
  inq,       \* the bytes the client has still to deliver
  h,         \* the header bytes received so far (hlen is its length)
  r,         \* struct request
  status,    \* serve: status (0 until getrequest or sendresponse returns)
  out,       \* the items written to the stream
  ops,       \* the stat, fopen and scandir calls made
  sf,        \* the arguments of the call of sendfile, if any
  fp,        \* sendfile: fp
  s,         \* sendfile: s
  remaining, \* sendfile: remaining
  fpos,      \* the position of fp in the file
  buf,       \* sendfile: the bytes of buf not yet written (bread is its length)
  log,       \* the lines written to the log
  sock,      \* the stream: open or closed
  fs,        \* the served tree
  listdirs,  \* config.h: listdirs
  failed,    \* the calls the environment has made fail
  realtarget,\* sendresponse: the static buffer realtarget
  calls,     \* the functions serve has called
  rq,        \* the request as getrequest has filled it in
  seen       \* what the parser has seen of the request line

vars == <<pc, inq, h, r, status, out, ops, sf, fp, s, remaining, fpos, buf, log, sock,
          fs, listdirs, failed, realtarget, calls, rq, seen>>

\* the most output calls sendresponse makes before it streams a body
MaxCalls == 7

Envs == [asc : BOOLEAN, wok : 0..MaxCalls, streg : BOOLEAN, fopen : BOOLEAN,
         fseek : BOOLEAN, behind : {NUL, CH_g}]

(***************************************************************************)
(* The requests a client sends.                                            *)
(***************************************************************************)
SP == <<32>>
Line(m, t, v) == m \o SP \o t \o SP \o v \o CRLF
Field(n, v) == n \o S(<<":", " ">>) \o v \o CRLF
HTTP11 == S(<<"H", "T", "T", "P", "/", "1", ".", "1">>)

Methods == {S(<<"G", "E", "T">>), S(<<"H", "E", "A", "D">>)}

Targets ==
  {STR_SLASH, S(<<"/", "d">>), S(<<"/", "d", "/">>), S(<<"/", "f", ".", "t", "x", "t">>),
  S(<<"/", "f", ".", "t", "x", "t", "/">>), S(<<"/", ".", "h">>), S(<<"/", "x">>),
  S(<<"/", "p", "/", "x">>), S(<<"/", "p", "/">>), S(<<"f", ".", "t", "x", "t">>),
   S(<<"/", "d", "/", ".", ".", "/", "f", ".", "t", "x", "t">>),
   S(<<"/", ".", ".", "/", "f", ".", "t", "x", "t">>),
   S(<<"/", ".", "/", "f", ".", "t", "x", "t">>), S(<<"/", "/", "f", ".", "t", "x", "t">>),
   S(<<"/", "d", "/", ".", ".">>), S(<<"/", "d", "/", ".">>), S(<<"/", "d", "/", ".", ".", "x">>),
   S(<<"/", ".", ".", ".">>),
   S(<<"/", "%", "2", "e", "%", "2", "e", "/", "f", ".", "t", "x", "t">>),
   S(<<"/", "f", "%", "2", "E", "t", "x", "t">>),
   S(<<"/", "d", "/", "i", "n", "d", "e", "x", ".", "h", "t", "m", "l">>),
   S(<<"/", "d", "/", "%", "2", "e", "/">>), S(<<"/", "x", "+", "y">>),
   S(<<"/", "x", "%", "4">>), S(<<"/", "d", "/", ".", "h", "/", ".", ".", "/">>),
   S(<<"/", ".", ".", "/", ".", ".">>),
   S(<<"d", "/", ".", "h">>), P_c, P_c \o STR_SLASH}

Ranges ==
  {S(<<"b", "y", "t", "e", "s", "=", "0", "-", "1">>),
  S(<<"b", "y", "t", "e", "s", "=", "1", "-", "1">>),
  S(<<"b", "y", "t", "e", "s", "=", "1", "-">>), S(<<"b", "y", "t", "e", "s", "=", "-", "1">>),
  S(<<"b", "y", "t", "e", "s", "=", "2", "-", "1">>),
  S(<<"b", "y", "t", "e", "s", "=", "4", "-", "9">>),
   S(<<"b", "y", "t", "e", "s", "=", "0", "-", "9">>),
   S(<<"b", "y", "t", "e", "s", "=", "2", "-", "2">>),
   S(<<"b", "y", "t", "e", "s", "=", "x", "-", "y">>),
   S(<<"b", "y", "t", "e", "s", "=", "1", "a", "-", "2">>),
   S(<<"b", "y", "t", "e", "=", "1", "-", "2">>), S(<<"b", "y", "t", "e", "s", "=", "1", "2">>),
   S(<<"b", "y", "t", "e", "s", "=", "-", "-", "1">>),
   S(<<"b", "y", "t", "e", "s", "=", "0", "-", "3">>)}

Dates == {timestamp(t) : t \in 0..(MaxTime + 1)} \cup {S(<<"S", "u", "n">>)}

RangeReqs ==
  {Line(m, S(<<"/", "f", ".", "t", "x", "t">>), HTTP11)
  \o Field(S(<<"R", "a", "n", "g", "e">>), v) \o CRLF : m \in Methods, v \in Ranges}

ModReqs ==
  {Line(m, S(<<"/", "f", ".", "t", "x", "t">>), HTTP11)
  \o Field(S(<<"I", "f", "-", "M", "o", "d", "i", "f", "i", "e", "d", "-", "S", "i", "n", "c", "e">>), v) \o CRLF :
     m \in Methods, v \in Dates}
  \cup {Line(m, S(<<"/", "f", ".", "t", "x", "t">>), HTTP11)
  \o Field(S(<<"I", "f", "-", "M", "o", "d", "i", "f", "i", "e", "d", "-", "S", "i", "n", "c", "e">>), timestamp(t))
          \o Field(S(<<"R", "a", "n", "g", "e">>), v) \o CRLF :
          m \in Methods, t \in {0, MaxTime}, v \in {S(<<"b", "y", "t", "e", "s", "=", "0", "-", "1">>), S(<<"b", "y", "t", "e", "s", "=", "2", "-", "1">>)}}

TargetReqs == {Line(m, t, HTTP11) \o CRLF : m \in Methods, t \in Targets}

OddReqs ==
  {Line(S(<<"P", "U", "T">>), S(<<"/", "f", ".", "t", "x", "t">>), HTTP11) \o CRLF,
   Line(S(<<"G", "E", "T", "X">>), S(<<"/", "f", ".", "t", "x", "t">>), HTTP11) \o CRLF,
   Line(S(<<"H", "E", "A", "D", "E", "R">>), S(<<"/", "f", ".", "t", "x", "t">>), HTTP11) \o CRLF,
   Line(S(<<"g", "e", "t">>), S(<<"/", "f", ".", "t", "x", "t">>), HTTP11) \o CRLF,
   S(<<"G", "E", "T">>) \o CRLF \o CRLF,
   S(<<"G", "E", "T", " ", " ", "/", "f", ".", "t", "x", "t", " ", "H", "T", "T", "P", "/", "1", ".", "1">>) \o CRLF \o CRLF,
   S(<<"G", "E", "T", " ", "/", "f", ".", "t", "x", "t">>) \o CRLF \o CRLF,
   Line(S(<<"G", "E", "T">>), S(<<"/", "f", ".", "t", "x", "t">>),
   S(<<"H", "T", "T", "P", "/", "1", ".", "0">>)) \o CRLF,
   Line(S(<<"G", "E", "T">>), S(<<"/", "f", ".", "t", "x", "t">>),
   S(<<"H", "T", "T", "P", "/", "2", ".", "0">>)) \o CRLF,
   Line(S(<<"G", "E", "T">>), S(<<"/", "f", ".", "t", "x", "t">>),
   S(<<"H", "T", "T", "X", "/", "1", ".", "1">>)) \o CRLF,
   Line(S(<<"G", "E", "T">>), S(<<"/", "f", ".", "t", "x", "t">>),
   S(<<"H", "T", "T", "P", "/", "1", ".", "1", "x">>)) \o CRLF,
   Line(S(<<"H", "E", "A", "D">>),
   S(<<"/", "0", "1", "2", "3", "4", "5", "6", "7", "8", "9", "a", "b", "c", "d", "e", "f">>), HTTP11) \o CRLF,
   Line(S(<<"G", "E", "T">>), S(<<"/", "f", ".", "t", "x", "t">>), HTTP11)
   \o Field(S(<<"H", "o", "s", "t">>), S(<<"h">>)) \o CRLF,
   Line(S(<<"G", "E", "T">>), S(<<"/", "f", ".", "t", "x", "t">>), HTTP11)
   \o Field(S(<<"R", "a", "n", "g", "e", "-", "X">>), S(<<"1">>)) \o CRLF,
   Line(S(<<"G", "E", "T">>), S(<<"/", "f", ".", "t", "x", "t">>), HTTP11)
   \o S(<<"R", "a", "n", "g", "e", " ", "b", "y", "t", "e", "s", "=", "0", "-", "1">>) \o CRLF
   \o CRLF,
   Line(S(<<"G", "E", "T">>), S(<<"/", "f", ".", "t", "x", "t">>), HTTP11)
   \o Field(S(<<"R", "a", "n", "g", "e">>),
   S(<<"b", "y", "t", "e", "s", "=", "0", "-", "1", "2", "3", "4", "5", "6">>)) \o CRLF,
   Line(S(<<"G", "E", "T">>), S(<<"/", "f", ".", "t", "x", "t">>), HTTP11)
   \o S(<<"R", "a", "n", "g", "e", ":", "b", "y", "t", "e", "s", "=", "0", "-", "1">>) \o CRLF
   \o S(<<"R", "a", "n", "g", "e", ":", " ", " ", " ", "b", "y", "t", "e", "s", "=", "1", "-">>)
     \o CRLF \o CRLF,
   Line(S(<<"G", "E", "T">>), S(<<"/", "f", ".", "t", "x", "t">>), HTTP11) \o CRLF
   \o S(<<"G", "E", "T">>),
   Line(S(<<"G", "E", "T">>), S(<<"/", "f", ".", "t", "x", "t">>), HTTP11)
   \o S(<<"H", "o", "s", "t", ":", " ", "h">>),
   Line(S(<<"G", "E", "T">>), S(<<"/", "f", ".", "t", "x", "t">>), HTTP11)
   \o [i \in 1..HEADER_MAX |-> CH_a],
   S(<<"G">>) \o CRLF \o CRLF,
   CRLF \o CRLF}

Fs(size, mtime, index) == [size |-> size, mtime |-> mtime, index |-> index]

Scenario(req, f, ld) == [req |-> req, fs |-> f, listdirs |-> ld]

Scenarios ==
  {Scenario(q, Fs(n, 1, FALSE), TRUE) : q \in RangeReqs, n \in 0..MaxSize}
  \cup {Scenario(q, Fs(MaxSize, t, FALSE), TRUE) : q \in ModReqs, t \in 1..MaxTime}
  \cup {Scenario(q, Fs(MaxSize, 1, i), ld) : q \in TargetReqs, i \in BOOLEAN, ld \in BOOLEAN}
  \cup {Scenario(q, Fs(MaxSize, 1, TRUE), TRUE) : q \in OddReqs}

\* what the uninitialised r.target of serve may hold
Garbage == {[j \in 1..PATH_MAX |-> NUL], [j \in 1..PATH_MAX |-> CH_g]}

Init ==
  \E sc \in Scenarios, g \in Garbage :
    /\ pc = "setsockopt"
    /\ inq = sc.req
    /\ h = <<>>
    /\ r = [method |-> "M_GET", target |-> g, field |-> <<<<>>, <<>>>>]
    /\ status = 0
    /\ out = <<>>
    /\ ops = <<>>
    /\ sf = <<>>
    /\ fp = "none"
    /\ s = 0
    /\ remaining = 0
    /\ fpos = 0
    /\ buf = <<>>
    /\ log = <<>>
    /\ sock = "open"
    /\ fs = sc.fs
    /\ listdirs = sc.listdirs
    /\ failed = {}
    /\ realtarget = Buf(<<>>)
    /\ calls = <<>>
    /\ rq = r
    /\ seen = Unseen

(***************************************************************************)
(* serve, in the child: the timeouts of the accepted connection.           *)
(***************************************************************************)
\* both setsockopt calls succeed: serve calls getrequest
SetTimeouts ==
  /\ pc = "setsockopt"
  /\ pc' = "recv"
  /\ calls' = Append(calls, "getrequest")
  /\ UNCHANGED <<inq, h, r, status, out, ops, sf, fp, s, remaining, fpos, buf, log, sock,
                 fs, listdirs, failed, realtarget, rq, seen>>

\* a setsockopt call fails: serve returns to main, which returns; the exit of
\* the process closes the connection, and nothing is read from it
SetTimeoutsErr ==
  /\ pc = "setsockopt"
  /\ pc' = "done"
  /\ failed' = failed \cup {"setsockopt"}
  /\ sock' = "closed"
  /\ inq' = <<>>
  /\ UNCHANGED <<h, r, status, out, ops, sf, fp, s, remaining, fpos, buf, log, fs,
                 listdirs, realtarget, calls, rq, seen>>

(***************************************************************************)
(* getrequest.  One step is one read and what follows it up to the next    *)
(* read or to the return.                                                  *)
(***************************************************************************)
\* getrequest returns: its buffer h is gone, and nothing more is read from
\* the stream; serve calls sendresponse if it has returned 0
Return(st, r1, sn) ==
  /\ status' = st
  /\ pc' = IF st = 0 THEN "respond" ELSE "log"
  /\ r' = r1
  /\ rq' = r1
  /\ seen' = sn
  /\ calls' = IF st = 0 THEN Append(calls, "sendresponse") ELSE calls
  /\ h' = <<>>
  /\ inq' = <<>>
  /\ UNCHANGED <<ops, sf, fp, s, remaining, fpos, buf, log, sock, fs, listdirs, realtarget>>

\* return sendstatus(fd, st), with r as the parser has left it; ev is what
\* the environment has made fail before
Reply(st, r1, ev, sn) ==
  \E wok \in BOOLEAN :
    LET ss == sendstatus(st, wok)
    IN  /\ out' = out \o ss.out
        /\ failed' = failed \cup ev \cup (IF wok THEN {} ELSE {"write"})
        /\ Return(ss.st, r1, sn)

\* the header is complete, or the stream has ended: parse it
Parse(h1, ev) ==
  \E pr \in {parseRequest(h1, Len(h1), r)} :
      IF pr.st = 0
      THEN /\ out' = out
           /\ failed' = failed \cup ev
           /\ Return(0, pr.r, Seen(h1, pr))
      ELSE Reply(pr.st, pr.r, ev, Seen(h1, pr))

\* off = read(fd, h + hlen, sizeof(h) - hlen) > 0
Read ==
  /\ pc = "recv"
  /\ \E off \in 1..MIN(MaxRead, MIN(Len(inq), HEADER_MAX - Len(h))) :
       LET h1   == h \o SubSeq(inq, 1, off)
           hlen == Len(h1)
       IN  IF hlen >= 4 /\ SubSeq(h1, hlen - 3, hlen) = CRLF \o CRLF
           THEN Parse(h1, {})
           ELSE IF hlen = HEADER_MAX
           THEN Reply(S_REQUEST_TOO_LARGE, r, {}, Unseen)
           ELSE /\ h' = h1
                /\ inq' = SubSeq(inq, off + 1, Len(inq))
                /\ UNCHANGED <<pc, r, status, out, ops, sf, fp, s, remaining, fpos, buf,
                               log, sock, fs, listdirs, failed, realtarget, calls,
                               rq, seen>>

\* off == 0: the client has closed its side, before h holds a header
\* terminator ("eof") or behind one that a read has not ended with
ReadEof ==
  /\ pc = "recv"
  /\ Parse(h, IF Contains(h, CRLF \o CRLF) THEN {"eof_behind"} ELSE {"eof"})

\* off < 0: the read failed or timed out
ReadErr ==
  /\ pc = "recv"
  /\ Reply(S_REQUEST_TIMEOUT, r, {"read"}, Unseen)

(***************************************************************************)
(* sendresponse, up to the body loop of sendfile.                          *)
(***************************************************************************)
\* what serve does with res, the outcome of sendresponse up to the body loop
RespondWith(env, res) ==
  /\ out' = out \o res.out
  /\ ops' = res.ops
  /\ sf' = res.sf
  /\ fp' = res.fp
  /\ r' = [r EXCEPT !.field[REQ_RANGE] = res.field]
  /\ failed' = failed
       \cup (IF res.st = S_REQUEST_TIMEOUT THEN {"write"} ELSE {})
       \cup (IF res.fp = "null" THEN {"fopen"} ELSE {})
       \cup (IF res.sf # <<>> /\ res.fp # "null" /\ ~env.fseek THEN {"fseek"} ELSE {})
  /\ IF res.body
     THEN /\ pc' = "fread"
          /\ s' = res.st
          /\ remaining' = Remaining(res.sf[1].lower, res.sf[1].upper)
          /\ fpos' = res.sf[1].lower
          /\ UNCHANGED status
     ELSE /\ pc' = "log"
          /\ status' = res.st
          /\ UNCHANGED <<s, remaining, fpos>>
  /\ realtarget' = res.rt
  /\ UNCHANGED <<inq, h, buf, log, sock, fs, listdirs, calls, rq, seen>>

Respond ==
  /\ pc = "respond"
  /\ \E env \in Envs :
       \E res \in {sendresponse(r, fs, listdirs, env)} : RespondWith(env, res)

(***************************************************************************)
(* sendfile: the body loop.                                                *)
(***************************************************************************)
\* MIN(sizeof(buf), remaining): remaining is compared as a size_t
Want == IF remaining < 0 THEN BUFSIZ ELSE MIN(BUFSIZ, remaining)

\* the bytes fread delivers
Got == IF fpos >= fs.size THEN 0 ELSE MIN(Want, fs.size - fpos)

\* the loop has ended: cleanup and return s
Cleanup ==
  /\ fp' = "closed"
  /\ status' = s
  /\ pc' = "log"

\* bread = fread(buf, 1, MIN(sizeof(buf), remaining), fp)
FRead ==
  /\ pc = "fread"
  /\ IF Got = 0
     THEN /\ Cleanup
          /\ UNCHANGED <<remaining, fpos, buf>>
     ELSE /\ buf' = [i \in 1..Got |-> FileByte(fpos + i - 1)]
          /\ remaining' = remaining - Got
          /\ fpos' = fpos + Got
          /\ pc' = "write"
          /\ UNCHANGED <<fp, status>>
  /\ UNCHANGED <<inq, h, r, out, ops, sf, s, log, sock, fs, listdirs, failed, realtarget,
                 calls, rq, seen>>

\* the read fails: fread returns 0 (it never returns less), which ends the loop
FReadErr ==
  /\ pc = "fread"
  /\ Got > 0
  /\ Cleanup
  /\ failed' = failed \cup {"fread"}
  /\ UNCHANGED <<inq, h, r, out, ops, sf, s, remaining, fpos, buf, log, sock, fs, listdirs,
                 realtarget, calls, rq, seen>>

\* bwritten = write(fd, p, bread) > 0
Write ==
  /\ pc = "write"
  /\ \E bwritten \in 1..Len(buf) :
       /\ out' = out \o [i \in 1..bwritten |-> Data(buf[i])]
       /\ buf' = SubSeq(buf, bwritten + 1, Len(buf))
       /\ pc' = IF bwritten = Len(buf) THEN "fread" ELSE "write"
  /\ UNCHANGED <<inq, h, r, status, ops, sf, fp, s, remaining, fpos, log, sock, fs,
                 listdirs, failed, realtarget, calls, rq, seen>>

\* bwritten <= 0: return S_REQUEST_TIMEOUT
WriteErr ==
  /\ pc = "write"
  /\ status' = S_REQUEST_TIMEOUT
  /\ failed' = failed \cup {"write"}
  /\ pc' = "log"
  /\ UNCHANGED <<inq, h, r, out, ops, sf, fp, s, remaining, fpos, buf, log, sock, fs,
                 listdirs, realtarget, calls, rq, seen>>

(***************************************************************************)
(* serve: the log line, then shutdown and close.                           *)
(***************************************************************************)
Log ==
  /\ pc = "log"
  /\ log' = Append(log, [status |-> status, target |-> CStr(r.target, 1)])
  /\ pc' = "shut"
  /\ UNCHANGED <<inq, h, r, status, out, ops, sf, fp, s, remaining, fpos, buf, sock, fs,
                 listdirs, failed, realtarget, calls, rq, seen>>

Close ==
  /\ pc = "shut"
  /\ sock' = "closed"
  /\ pc' = "done"
  /\ UNCHANGED <<inq, h, r, status, out, ops, sf, fp, s, remaining, fpos, buf, log, fs,
                 listdirs, failed, realtarget, calls, rq, seen>>

Next ==
  \/ SetTimeouts
  \/ SetTimeoutsErr
  \/ Read
  \/ ReadEof
  \/ ReadErr
  \/ Respond
  \/ FRead
  \/ FReadErr
  \/ Write
  \/ WriteErr
  \/ Log
  \/ Close

Spec == Init /\ [][Next]_vars

\* a step of the worker is possible: ENABLED <<Next>>_vars, with the outcome
\* of sendresponse computed before ENABLED is applied to what serve does
\* with it; in a reading worker the read can at least fail
CanStep ==
  \/ ENABLED <<SetTimeouts \/ ReadErr \/ FRead \/ FReadErr \/ Write \/ WriteErr \/ Log \/ Close>>_vars
  \/ /\ pc = "respond"
     /\ \E env \in Envs :
          \E res \in {sendresponse(r, fs, listdirs, env)} :
            ENABLED <<RespondWith(env, res)>>_vars

TypeOK ==
  /\ pc \in {"setsockopt", "recv", "respond", "fread", "write", "log", "shut", "done"}
  /\ Len(h) <= HEADER_MAX
  /\ status \in Statuses \cup {0}
  /\ fp \in {"none", "null", "open", "closed"}
  /\ Len(r.target) = PATH_MAX

(***************************************************************************)
(* The vocabulary of the properties: the request as the client has sent it *)
(* and the response as the client reads it.                                *)
(***************************************************************************)
Done == pc = "done"

Called(f) == \E i \in 1..Len(calls) : calls[i] = f

\* sendresponse has run to its return, or to the body loop of sendfile
Responded == Called("sendresponse") /\ pc # "respond"

\* the target the parser has handed on
Tgt == CStr(rq.target, 1)

\* the target names a regular file of the tree that is not hidden, or the
\* directory whose index file exists
RegularTarget ==
  \/ Tgt = P_f
  \/ fs.index /\ Tgt \in {P_idx, P_d \o STR_SLASH}

\* the time of If-Modified-Since as the client has sent it
Ims == strptime(rq.field[REQ_MOD] \o <<NUL>>, 1)
NoIms == rq.field[REQ_MOD] = <<>>

\* the decimal number the digits t spell
RECURSIVE Value(_)
Value(t) == IF t = <<>> THEN 0 ELSE 10 * Value(SubSeq(t, 1, Len(t) - 1)) + (t[Len(t)] - 48)

IsNumber(t) == t # <<>> /\ \A i \in 1..Len(t) : IsDigit(t[i])

\* the Range value f read as bytes=a-b, both positions given
RangeOf(f) ==
  LET v == SubSeq(f, Len(STR_BYTES) + 1, Len(f))
      a == UpTo(v, CH_MINUS)
      b == SubSeq(v, Len(a) + 2, Len(v))
  IN  [ok |-> IsPrefixOf(STR_BYTES, f) /\ Len(a) < Len(v) /\ IsNumber(a) /\ IsNumber(b),
       a |-> Value(a), b |-> Value(b)]

Rng == RangeOf(rq.field[REQ_RANGE])
NoRange == rq.field[REQ_RANGE] = <<>>

\* the header items of the name n written, in order
HdrsNamed(n) == SelectSeq(out, LAMBDA it : it.t = "hdr" /\ it.n = n)

\* the body bytes written, in order
Body == LET d == SelectSeq(out, LAMBDA it : it.t = "data") IN [i \in 1..Len(d) |-> d[i].v[1]]

\* the bytes [a, e) of the file
FileBytes(a, e) == [i \in 1..(e - a) |-> FileByte(a + i - 1)]

NotModifiedHead ==
  <<StatusLine(S_NOT_MODIFIED), DateHdr, Hdr("Connection", "close", <<>>), EndOfHeaders>>

(***************************************************************************)
(* C1: a GET or HEAD of a regular file with a parseable If-Modified-Since  *)
(* not before the mtime of the file (and no Range) writes exactly one 304  *)
(* head and nothing after it, and 304 is the status returned; with a time  *)
(* before the mtime the status is 200 or 206.  Stated for runs in which no *)
(* call of the environment fails.                                          *)
(***************************************************************************)
C1_ConditionalGet ==
  (Done /\ Called("sendresponse") /\ RegularTarget /\ failed = {} /\ ~NoIms /\ Ims.ok
     /\ NoRange)
  => IF Ims.t >= fs.mtime
     THEN status = S_NOT_MODIFIED /\ out = NotModifiedHead
     ELSE status \in {S_OK, S_PARTIAL_CONTENT}

(***************************************************************************)
(* C2: for a regular file of size N and Range: bytes=a-b with 0 <= a <= b  *)
(* and a < N the status is 206, Content-Length is min(N, b+1) - a and      *)
(* Content-Range is bytes a-(min(N, b+1)-1)/N.  Stated for requests        *)
(* without If-Modified-Since and runs in which no call of the environment  *)
(* fails.                                                                  *)
(***************************************************************************)
C2_RangeHeaders ==
  (Done /\ Called("sendresponse") /\ RegularTarget /\ failed = {} /\ NoIms /\ Rng.ok
     /\ Rng.a <= Rng.b /\ Rng.a < fs.size)
  => LET e == MIN(fs.size, Rng.b + 1)
     IN  /\ status = S_PARTIAL_CONTENT
         /\ out[1] = StatusLine(S_PARTIAL_CONTENT)
         /\ HdrsNamed("Content-Length") = <<Hdr("Content-Length", "", zu(e - Rng.a))>>
         /\ HdrsNamed("Content-Range")
              = <<Hdr("Content-Range", "bytes", zu(Rng.a) \o zu(e - 1) \o zu(fs.size))>>

(***************************************************************************)
(* C3: a GET of a regular file of size N that completes without a failed   *)
(* call writes as body, behind the head, exactly the bytes [a, min(N,b+1)) *)
(* of the file in order when an accepted Range a-b is present, and the     *)
(* whole file when no Range is present; and a chunk is written completely  *)
(* before the next one is read (fread is reached with nothing of buf left  *)
(* to write).                                                              *)
(***************************************************************************)
C3_BodyWindow ==
  /\ pc = "fread" => buf = <<>>
  /\ (Done /\ Called("sendresponse") /\ RegularTarget /\ rq.method = "M_GET"
        /\ failed = {} /\ (NoIms \/ Ims.ok) /\ (NoRange \/ (Rng.ok /\ Rng.a <= Rng.b)))
     => /\ status \in {S_OK, S_PARTIAL_CONTENT}
        /\ Body = IF NoRange THEN FileBytes(0, fs.size)
                  ELSE FileBytes(Rng.a, MIN(fs.size, Rng.b + 1))
        /\ \A i, j \in 1..Len(out) : out[i].t = "data" /\ out[j].t = "eoh" => j < i

\* a GET with Range: bytes=1-1 of a file that has this byte has sent it
C3_Witness ==
  /\ Done /\ Called("sendresponse") /\ RegularTarget /\ rq.method = "M_GET" /\ failed = {}
  /\ Rng.ok /\ Rng.a = 1 /\ Rng.b = 1
  /\ Body = <<FileByte(1)>>

(***************************************************************************)
(* C4: at every call of sendfile 0 <= lower <= upper <= size.              *)
(***************************************************************************)
C4_WindowOrdered ==
  sf # <<>> => 0 <= sf[1].lower /\ sf[1].lower <= sf[1].upper /\ sf[1].upper <= sf[1].size

\* the segments of the path t: what stands between its slashes
RECURSIVE Segments(_)
Segments(t) ==
  LET seg == UpTo(t, CH_SLASH)
  IN  IF Len(seg) = Len(t) THEN {seg}
      ELSE {seg} \cup Segments(SubSeq(t, Len(seg) + 2, Len(t)))

\* a path below the root: absolute, and no segment is . or ..
Contained(path) ==
  /\ path # <<>> /\ path[1] = CH_SLASH
  /\ Segments(path) \cap {STR_DOT, STR_DOTDOT} = {}

(***************************************************************************)
(* C5: every path passed to stat, fopen or scandir begins with a slash and *)
(* has no segment . or .., whatever the target and whichever way the       *)
(* overlapping copies of the normalizer run; a target that does not begin  *)
(* with a slash is answered 400 (or, the write failing, with nothing)      *)
(* without any filesystem access.                                          *)
(***************************************************************************)
C5_Containment ==
  /\ \A i \in 1..Len(ops) : Contained(ops[i].path)
  /\ (Responded /\ (Tgt = <<>> \/ Tgt[1] # CH_SLASH))
     => /\ ops = <<>>
        /\ IF "write" \in failed THEN status = S_REQUEST_TIMEOUT /\ out = <<>>
           ELSE status = S_BAD_REQUEST /\ out = StatusPage(S_BAD_REQUEST)

\* a target with a .. segment has led to a filesystem access
C5_Witness == Done /\ STR_DOTDOT \in Segments(Tgt) /\ ops # <<>>

\* a segment of the path begins with a dot
HiddenSegment(path) == \E seg \in Segments(path) : seg # <<>> /\ seg[1] = CH_DOT

(***************************************************************************)
(* C6: a request whose normalized target (realtarget, as the normalizer    *)
(* leaves it) has a segment beginning with a dot is answered 403 with no   *)
(* stat, fopen or scandir made, so whether or not the path exists; if the  *)
(* write of the answer fails nothing is written and 408 is returned.       *)
(***************************************************************************)
C6_HiddenForbidden ==
  (Responded /\ At(realtarget, 1) = CH_SLASH /\ HiddenSegment(CStr(realtarget, 1)))
  => /\ ops = <<>>
     /\ sf = <<>>
     /\ IF "write" \in failed THEN status = S_REQUEST_TIMEOUT /\ out = <<>>
        ELSE status = S_FORBIDDEN /\ out = StatusPage(S_FORBIDDEN)

\* the hidden file that exists has been asked for and refused
C6_Witness == Done /\ Tgt = P_h /\ status = S_FORBIDDEN /\ ops = <<>>

\* the status line and the headers of a response: the items up to the first
\* empty line
RECURSIVE HeadOf(_)
HeadOf(o) ==
  IF o = <<>> THEN <<>>
  ELSE IF Head(o).t = "eoh" THEN <<Head(o)>>
  ELSE <<Head(o)>> \o HeadOf(Tail(o))

(***************************************************************************)
(* C7: the status line and headers written for HEAD R are those written    *)
(* for GET R, and for HEAD nothing is written behind the empty line that   *)
(* ends the headers, on every response path.  Stated for runs in which no  *)
(* call of the environment fails.                                          *)
(***************************************************************************)
C7_HeadParity ==
  /\ (pc = "respond")
     => \A env \in Envs :
          HeadOf(sendresponse([r EXCEPT !.method = "M_HEAD"], fs, listdirs, env).out)
            = HeadOf(sendresponse([r EXCEPT !.method = "M_GET"], fs, listdirs, env).out)
  /\ (Done /\ failed = {} /\ seen.tok = req_method_str[2])
     => \A i \in 1..Len(out) : out[i].t = "eoh" => i = Len(out)

(***************************************************************************)
(* C8: when the stream ends or a read fails before a header terminator has *)
(* been received, getrequest answers 408 and returns 408, and sendresponse *)
(* is not called.                                                          *)
(***************************************************************************)
C8_EofTimeout ==
  (pc # "recv" /\ failed \cap {"eof", "read"} # {})
  => /\ ~Called("sendresponse")
     /\ status = S_REQUEST_TIMEOUT
     /\ "write" \notin failed => out = StatusPage(S_REQUEST_TIMEOUT)

HasAllow == HdrsNamed("Allow") # <<>>

Begun ==
  IF IsPrefixOf(req_method_str[1], seen.tok) THEN req_method_str[1]
  ELSE IF IsPrefixOf(req_method_str[2], seen.tok) THEN req_method_str[2]
  ELSE <<>>

C10_LoggedTarget ==
  log # <<>>
  => IF seen.tgt
     THEN /\ log[1].target = Tgt
          /\ (\A i \in 1..Len(seen.raw) : seen.raw[i] \notin {CH_PERCENT, CH_PLUS})
               => log[1].target = seen.raw
     ELSE log[1].target = <<>>

(***************************************************************************)
(* C11: the worker of every accepted connection, given that every call     *)
(* returns, ends having written exactly one log line, with a status of the *)
(* enumeration, and having then shut down and closed the stream: it can    *)
(* take a step until it is done, and when it is done the stream is closed  *)
(* and the log holds one such line; there is never more than one log line, *)
(* the stream is not closed before the line is written, sendresponse is    *)
(* called only when getrequest has returned 0, and nothing is written to   *)
(* the stream once the log line is there.                                  *)
(***************************************************************************)
C11_OneLogLine ==
  /\ [](Done \/ CanStep)
  /\ [](Done => sock = "closed" /\ Len(log) = 1 /\ log[1].status \in Statuses)
  /\ [](Len(log) <= 1)
  /\ [](sock = "closed" => Len(log) = 1)
  /\ [][(~Called("sendresponse") /\ Called("sendresponse")') => status' = 0]_vars
  /\ [][log # <<>> => out' = out]_vars

(***************************************************************************)
(* C12: normabspath is idempotent.  For every target on which it succeeds, *)
(* under either direction of its overlapping memcpy, applying it to its    *)
(* result succeeds and leaves the string unchanged.                        *)
(***************************************************************************)
C12_Idempotent ==
  pc = "respond" =>
    \A asc1, asc2 \in BOOLEAN :
      \A n1 \in {normabspath(r.target, asc1)} :
        n1.ret = 0 =>
          \A n2 \in {normabspath(n1.buf, asc2)} :
            n2.ret = 0 /\ CStr(n2.buf, 1) = CStr(n1.buf, 1)

\* the normalizer has changed a target, and is idempotent on it
C12_Witness ==
  /\ pc = "respond"
  /\ CStr(r.target, 1) = S(<<"/", "d", "/", ".", ".", "/", "f", ".", "t", "x", "t">>)
  /\ \E asc \in BOOLEAN : CStr(normabspath(r.target, asc).buf, 1) = S(<<"/", "f", ".", "t", "x", "t">>)

(***************************************************************************)
(* C13: header reception ends at the first CRLF CRLF of the byte stream,   *)
(* however the stream is split over the reads.  When getrequest returns    *)
(* without a failed read, and the stream the client sends holds a CRLF     *)
(* CRLF within the header bound, then the request it leaves and the status *)
(* it returns are those of parsing the bytes up to the first CRLF CRLF     *)
(* (408 in place of an error status whose page could not be written).      *)
(***************************************************************************)
\* the position of the last byte of the first CRLF CRLF in t
FirstTerminator(t) ==
  CHOOSE k \in 4..Len(t) :
    /\ SubSeq(t, k - 3, k) = CRLF \o CRLF
    /\ \A j \in 4..(k - 1) : SubSeq(t, j - 3, j) # CRLF \o CRLF

\* the bytes the client sends, seen from a step of getrequest: what has been
\* read, and what is still to come unless the client closes now
Stream == IF failed' \cap {"eof", "eof_behind"} # {} THEN h ELSE h \o inq

C13_FirstTerminator ==
  [][(/\ pc = "recv"
      /\ pc' # "recv"
      /\ "read" \notin failed'
      /\ Contains(Stream, CRLF \o CRLF)
      /\ FirstTerminator(Stream) <= HEADER_MAX)
     => \E k \in {FirstTerminator(Stream)} :
          \E pr \in {parseRequest(SubSeq(Stream, 1, k), k, r)} :
            /\ rq' = pr.r
            /\ \/ status' = pr.st
               \/ pr.st # 0 /\ "write" \in failed' /\ status' = S_REQUEST_TIMEOUT]_vars

(***************************************************************************)
(* C14: header lines with a field name other than Range and                *)
(* If-Modified-Since are ignored.  Whenever the header getrequest has      *)
(* parsed holds a CRLF-terminated line "name: ..." behind a CRLF, with a   *)
(* name that is neither of the two, and the header without that line       *)
(* parses successfully, then getrequest returns 0 and leaves the method,   *)
(* target and field values of the header without the line.                 *)
(***************************************************************************)
\* hd[i..j] is a line of hd behind the request line, with its CRLF
IsLine(hd, i, j) ==
  /\ i >= 3
  /\ j >= i + 2
  /\ j <= Len(hd)
  /\ SubSeq(hd, i - 2, i - 1) = CRLF
  /\ SubSeq(hd, j - 1, j) = CRLF
  /\ ~Contains(SubSeq(hd, i, j - 1), CRLF)

\* the field name of a header line: its bytes before the first colon
FieldName(l) == UpTo(l, CH_COLON)

\* a header line with a field name that is not one of req_field_str
OtherField(l) ==
  /\ Len(FieldName(l)) \in 1..(Len(l) - 1)
  /\ \A f \in 1..Len(req_field_str) : FieldName(l) # req_field_str[f]

C14_OtherFieldsIgnored ==
  (pc = "respond" \/ (pc = "log" /\ ~Called("sendresponse")))
  => \A i \in 3..Len(seen.hdr) :
       SubSeq(seen.hdr, i - 2, i - 1) = CRLF
       => \A j \in (i + 2)..Len(seen.hdr) :
            (IsLine(seen.hdr, i, j) /\ OtherField(SubSeq(seen.hdr, i, j)))
            => \A base \in {SubSeq(seen.hdr, 1, i - 1)
                              \o SubSeq(seen.hdr, j + 1, Len(seen.hdr))} :
                 \A pb \in {parseRequest(base, Len(base), rq)} :
                   pb.st = 0
                   => /\ Called("sendresponse")
                      /\ rq.method = pb.r.method
                      /\ CStr(rq.target, 1) = CStr(pb.r.target, 1)
                      /\ rq.field = pb.r.field

(***************************************************************************)
(* C15: no return from sendfile leaves the file open.  Once sendresponse   *)
(* has returned to serve, the file that sendfile has opened, if any, is    *)
(* closed.                                                                 *)
(***************************************************************************)
C15_FileClosed ==
  (Called("sendresponse") /\ pc \in {"log", "shut", "done"}) => fp # "open"

(***************************************************************************)
(* C16: a failed read of the file in the body loop ends the streaming, and *)
(* the status returned to serve and logged is 500.                         *)
(***************************************************************************)
C16_ReadError ==
  /\ []("fread" \in failed => /\ pc \in {"log", "shut", "done"}
                              /\ status = S_INTERNAL_SERVER_ERROR
                              /\ \A i \in 1..Len(log) : log[i].status = S_INTERNAL_SERVER_ERROR)
  /\ [][("fread" \in failed) => out' = out]_vars

(***************************************************************************)
(* C17: the result of normabspath ends with a slash, without being "/",    *)
(* only if its input ended with a slash.  For every target that reaches    *)
(* sendresponse and either direction of the overlapping memcpy.            *)
(***************************************************************************)
EndsWithSlash(t) == t # <<>> /\ t[Len(t)] = CH_SLASH

C17_TrailingSlash ==
  pc = "respond" =>
    \A asc \in BOOLEAN :
      \A n \in {normabspath(r.target, asc)} :
        (n.ret = 0 /\ EndsWithSlash(CStr(n.buf, 1)) /\ CStr(n.buf, 1) # STR_SLASH)
        => EndsWithSlash(CStr(r.target, 1))

(***************************************************************************)
(* C18: decode turns a '%' into one byte only when two hexadecimal digits  *)
(* follow it; any other '%' is copied as it is and the bytes behind it are *)
(* decoded in their turn.  The target getrequest leaves is the lenient     *)
(* decoding of the target bytes received.                                  *)
(***************************************************************************)
\* the decoding the claim describes
RECURSIVE Lenient(_)
Lenient(t) ==
  IF t = <<>> THEN <<>>
  ELSE IF t[1] = CH_PLUS THEN <<32>> \o Lenient(Tail(t))
  ELSE IF t[1] = CH_PERCENT /\ Len(t) >= 3 /\ IsHex(t[2]) /\ IsHex(t[3])
  THEN <<16 * HexVal(t[2]) + HexVal(t[3])>> \o Lenient(SubSeq(t, 4, Len(t)))
  ELSE <<t[1]>> \o Lenient(Tail(t))

C18_LenientDecode ==
  seen.tgt => CStr(rq.target, 1) = Lenient(seen.raw)

(***************************************************************************)
(* C19: a Range value bytes=first-last whose first or last part is neither *)
(* empty nor a sequence of decimal digits is answered 400, and no byte of  *)
(* the file is sent.  Stated for a regular file, requests without          *)
(* If-Modified-Since and runs in which no call of the environment fails.   *)
(***************************************************************************)
\* the Range value f has the prefix bytes= and a part that is not a number
Malformed(f) ==
  LET v == SubSeq(f, Len(STR_BYTES) + 1, Len(f))
      a == UpTo(v, CH_MINUS)
      b == SubSeq(v, Len(a) + 2, Len(v))
  IN  /\ IsPrefixOf(STR_BYTES, f)
      /\ Len(a) < Len(v)
      /\ \/ a # <<>> /\ ~IsNumber(a)
         \/ b # <<>> /\ ~IsNumber(b)

C19_MalformedRange ==
  (Done /\ Called("sendresponse") /\ RegularTarget /\ failed = {} /\ NoIms
     /\ Malformed(rq.field[REQ_RANGE]))
  => status = S_BAD_REQUEST /\ Body = <<>>

(***************************************************************************)
(* C20: decoding the target in place, the read position never passes the   *)
(* terminating NUL of the input, the write index never exceeds the read    *)
(* index, and the output is a string no longer than the input.  At the     *)
(* step in which getrequest extracts a target: for the buffer decode is    *)
(* given, r.target holding the target bytes received and a NUL.            *)
(***************************************************************************)
C20_DecodeBounded ==
  [][(seen'.tgt /\ ~seen.tgt)
     => \A d \in {decode(Store(r.target, 1, seen'.raw \o <<NUL>>))} :
          /\ rq'.target = d.buf
          /\ d.s <= Len(seen'.raw)
          /\ d.len <= d.s
          /\ Len(CStr(d.buf, 1)) <= Len(seen'.raw)]_vars

(***************************************************************************)
(* C21: when a 301 is produced, encode has stored only below PATH_MAX of   *)
(* its destination and has left a NUL-terminated string there, and the     *)
(* Location value is exactly the encoding of the canonical target: every   *)
(* control byte and every byte above 0x7F as %XX, every other byte as it   *)
(* is.  Whatever lies behind the destination buffer.                       *)
(***************************************************************************)
\* the encoding the claim describes
RECURSIVE Encoded(_)
Encoded(t) ==
  IF t = <<>> THEN <<>>
  ELSE (IF IsCntrl(t[1]) \/ t[1] > 127
        THEN <<CH_PERCENT, HexDigit(t[1] \div 16), HexDigit(t[1] % 16)>>
        ELSE <<t[1]>>) \o Encoded(Tail(t))

\* sendresponse has written the head of a 301
Moved == Responded /\ out # <<>> /\ out[1] = StatusLine(S_MOVED_PERMANENTLY)

C21_EncodeBounded ==
  Moved =>
    \A behind \in {NUL, CH_g} :
      \A enc \in {encode(realtarget, behind)} :
        /\ ~enc.oob
        /\ \E j \in 1..PATH_MAX : enc.buf[j] = NUL
        /\ HdrsNamed("Location") = <<Hdr("Location", "", Encoded(CStr(realtarget, 1)))>>

====
